---- MODULE Spec2Model ----
(***************************************************************************)
(* A model of @restkit/core: the relation graph (RelationGraph, built from *)
(* a resource map and a list of relation descriptors per source resource)  *)
(* and the queries it answers, the resource path resolver with its cache, *)
(* and the attribute instances with their fluent methods.                  *)
(*                                                                         *)
(* JavaScript values are records with a field `kind`:                      *)
(*   "undefined"  the value undefined                                      *)
(*   "function"   a function inherited from Object.prototype               *)
(*   "resource"   a Resource (only its name matters to the graph)          *)
(*   "relation"   a Relation                                               *)
(*   "throw"      the outcome of a call that threw                         *)
(* Resource-map keys and resource names are strings.  Relation names and   *)
(* relation paths are sequences of symbols, "." being the separator, so    *)
(* that split and join are computed and not assumed to be inverse.         *)
(***************************************************************************)
EXTENDS Integers, Sequences, FiniteSets, TLC

VARIABLES
  resourceMap,    \* the ResourceMap handed to create: key -> Resource
  connections,    \* what the declaration callback returns: key -> descriptors
  phase,          \* "declaring" | "built" | "failed"
  relations,      \* RelationGraph.relations (set by the constructor)
  adjacencyList,  \* RelationGraph.adjacencyList (set by the constructor)
  call,           \* the last query made, with its arguments
  ret,            \* what that query returned, or that it threw
  pathAsked,      \* the path string the caller asks the path resolver about
  instance,       \* ResourcePathResolver.instance: the resolver and its cache
  now,            \* Date.now(), in milliseconds
  heap            \* the attribute instances made so far, by identity

vars ==
  <<resourceMap, connections, phase, relations, adjacencyList, call, ret,
    pathAsked, instance, now, heap>>

\* what the relation graph never touches
resolverVars == <<pathAsked, instance, now, heap>>

----------------------------------------------------------------------------
(* Bounds of the model *)

\* descriptors the declaration callback returns, all sources together
MaxDescriptors == 3
\* largest maxDepth handed to getRelationPaths
MaxDepth == 3
\* segments of the paths handed to isValidRelationPath
MaxSegments == 2
\* segments of the paths handed to validatePath
MaxPathSegments == 3
\* minutes the clock runs for
MaxMinutes == 2

----------------------------------------------------------------------------
(* JavaScript values *)

Undefined == [kind |-> "undefined"]

\* Object.prototype.constructor, the function Object: what obj["constructor"]
\* yields on a plain object that has no such own property.
ObjectFunction == [kind |-> "function", name |-> "Object"]

Throw(error) == [kind |-> "throw", error |-> error]

Value(v) == [kind |-> "value", value |-> v]

\* !v is false for objects and functions, true for undefined
Truthy(v) == v.kind # "undefined"

\* names every plain object inherits from Object.prototype
ObjectPrototypeKeys == {"constructor"}

\* obj[key] on a plain object whose own properties are DOMAIN obj
ObjGet(obj, key) ==
  IF key \in DOMAIN obj THEN obj[key]
  ELSE IF key \in ObjectPrototypeKeys THEN ObjectFunction
  ELSE Undefined

----------------------------------------------------------------------------
(* Strings of relation names and relation paths *)

KEY_PATH_SEPARATOR == "."

\* createKeyPath(currentPath, relationName)
createKeyPath(currentPath, relationName) ==
  currentPath \o <<KEY_PATH_SEPARATOR>> \o relationName

\* path.split(separator): the segments between separators, the empty ones
\* included; the empty string gives one empty segment
RECURSIVE SplitFrom(_, _, _, _)
SplitFrom(path, separator, i, current) ==
  IF i > Len(path) THEN <<current>>
  ELSE IF path[i] = separator
       THEN <<current>> \o SplitFrom(path, separator, i + 1, <<>>)
       ELSE SplitFrom(path, separator, i + 1, Append(current, path[i]))

Split(path, separator) == SplitFrom(path, separator, 1, <<>>)

\* segments.join(separator)
RECURSIVE Join(_, _)
Join(segments, separator) ==
  IF segments = <<>> THEN <<>>
  ELSE IF Len(segments) = 1 THEN segments[1]
  ELSE segments[1] \o <<separator>> \o Join(Tail(segments), separator)

----------------------------------------------------------------------------
(* Resources and resource maps *)

\* Resource.define(name, attributes); attributes maps names to attributes
Resource(name, attributes) ==
  [kind |-> "resource", name |-> name, attributes |-> attributes]

\* the graph reads no attribute: its resources have none
NoAttributes == <<>>

Keys == {"a", "b", "c"}

\* combineResources(a, b, c): every resource under its own name
CombineResources == [k \in Keys |-> Resource(k, NoAttributes)]

\* a resource map written by hand, the keys chosen by the caller: under "a"
\* a resource named "b", under "b" one named "d", under "c" one named "c"
HandWrittenMap ==
  [k \in Keys |->
     Resource(CASE k = "a" -> "b" [] k = "b" -> "d" [] OTHER -> "c",
              NoAttributes)]

ResourceMaps == {CombineResources, HandWrittenMap}

----------------------------------------------------------------------------
(* Relation descriptors *)

RelationCardinality == {"one", "many"}

RelationNames == {<<"p">>, <<"q">>}

\* targets a descriptor can name: the keys, a name that is no key of either
\* map ("d"), and a name every plain object inherits ("constructor")
Targets == Keys \cup {"d", "constructor"}

RelationConnection(name, target, cardinality) ==
  [name |-> name, target |-> target, cardinality |-> cardinality]

NumDescriptors(conns) ==
  Len(conns["a"]) + Len(conns["b"]) + Len(conns["c"])

----------------------------------------------------------------------------
(* Relations and the relation map of one source resource *)

\* new Relation(source, target, name, cardinality)
Relation(source, target, name, cardinality) ==
  [kind |-> "relation", name |-> name, source |-> source,
   target |-> target, cardinality |-> cardinality]

\* index of the own property `name` in a relation map (a plain object, kept
\* as the sequence of its values in insertion order), 0 when there is none
IndexOfName(rels, name) ==
  IF \E i \in 1..Len(rels) : rels[i].name = name
  THEN CHOOSE i \in 1..Len(rels) : rels[i].name = name
  ELSE 0

\* the assignment that leaves an existing key as it is: first write wins
SetRelation_KeepFirst(rels, relation) ==
  LET i == IndexOfName(rels, relation.name)
  IN IF i = 0 THEN Append(rels, relation) ELSE rels

\* processedRelations[relationName] = relation: a new key is appended, an
\* existing key keeps its place and takes the new value
SetRelation(rels, relation) ==
  LET i == IndexOfName(rels, relation.name)
  IN IF i = 0 THEN Append(rels, relation) ELSE [rels EXCEPT ![i] = relation]

\* relations[name] on a relation map
RelGet(rels, name) ==
  LET i == IndexOfName(rels, name)
  IN IF i # 0 THEN rels[i]
     ELSE IF name \in {<<k>> : k \in ObjectPrototypeKeys} THEN ObjectFunction
     ELSE Undefined

\* Set.prototype.add on a set kept in insertion order
SetAdd(set, x) ==
  IF \E i \in 1..Len(set) : set[i] = x THEN set ELSE Append(set, x)

\* the elements of a sequence
Range(seq) == {seq[i] : i \in 1..Len(seq)}

----------------------------------------------------------------------------
(* RelationGraph.createGraphData *)

\* the loop over the descriptors of one source: acc is what the loop has
\* built so far, or the error it threw
RECURSIVE ProcessConnections(_, _, _, _)
ProcessConnections(rm, sourceResourceName, descriptors, acc) ==
  IF descriptors = <<>> THEN acc
  ELSE
    LET d == Head(descriptors)
        targetResource == ObjGet(rm, d.target)
    IN IF d.name = <<>> THEN Throw("Error: relation name must be specified")
       ELSE IF ~Truthy(targetResource)
       THEN Throw("Error: resource not found in resource map")
       ELSE ProcessConnections(rm, sourceResourceName, Tail(descriptors),
              [kind |-> "ok",
               relations |->
                 SetRelation(acc.relations,
                   Relation(rm[sourceResourceName], targetResource,
                            d.name, d.cardinality)),
               targets |-> SetAdd(acc.targets, d.target)])

createGraphData(rm, conns) ==
  LET perSource ==
        [k \in DOMAIN rm |->
           ProcessConnections(rm, k, conns[k],
             [kind |-> "ok", relations |-> <<>>, targets |-> <<>>])]
  IN IF \E k \in DOMAIN rm : perSource[k].kind = "throw"
     THEN Throw("Error")
     ELSE [kind |-> "ok",
           relations |->
             [k \in DOMAIN rm |->
                [kind |-> "entry", resource |-> rm[k],
                 relations |-> perSource[k].relations]],
           adjacencyList |-> [k \in DOMAIN rm |-> perSource[k].targets]]

----------------------------------------------------------------------------
(* The declaration callback: the descriptors it returns are written as       *)
(* literals, or made with the RelationConnector / RelationReferencer that    *)
(* create hands to it.  An accessor that throws aborts the callback and so   *)
(* the construction.                                                         *)

NoCall == [op |-> "none"]

NoGraph == [kind |-> "none"]

NoInstance == [kind |-> "null"]

Init ==
  /\ resourceMap \in ResourceMaps
  /\ connections = [k \in Keys |-> <<>>]
  /\ phase = "declaring"
  /\ relations = NoGraph
  /\ adjacencyList = NoGraph
  /\ call = NoCall
  /\ ret = NoCall
  /\ pathAsked = <<>>
  /\ instance = NoInstance
  /\ now = 0
  /\ heap = <<>>

CanDeclare == phase = "declaring" /\ NumDescriptors(connections) < MaxDescriptors

AddConnection(source, d) ==
  /\ connections' = [connections EXCEPT ![source] = Append(@, d)]
  /\ UNCHANGED <<resourceMap, phase, relations, adjacencyList, call, ret>>
  /\ UNCHANGED resolverVars

Abort ==
  /\ phase' = "failed"
  /\ UNCHANGED <<resourceMap, connections, relations, adjacencyList, call, ret>>
  /\ UNCHANGED resolverVars

\* a descriptor written as an object literal {name, target, cardinality}
DeclareLiteral ==
  /\ CanDeclare
  /\ \E source \in Keys, name \in RelationNames, target \in Targets,
        cardinality \in RelationCardinality :
       AddConnection(source, RelationConnection(name, target, cardinality))

\* RelationConnector.buildConnectionMap: connector.one.<key>.as(name)
buildConnectionMap(rm, key, name, cardinality) ==
  LET resource == ObjGet(rm, key)
  IN IF ~Truthy(resource) THEN Throw("Error: resource not found in resource map")
     ELSE Value(RelationConnection(name, resource.name, cardinality))

DeclareWithConnector ==
  /\ CanDeclare
  /\ \E source \in Keys, name \in RelationNames, key \in Targets,
        cardinality \in RelationCardinality :
       LET d == buildConnectionMap(resourceMap, key, name, cardinality)
       IN IF d.kind = "throw" THEN Abort ELSE AddConnection(source, d.value)

\* RelationReferencer.createAccessorProxy: referencer.one.<key>.as(name)
createAccessorProxy(rm, key, name, cardinality) ==
  IF ~Truthy(ObjGet(rm, key))
  THEN Throw("Error: resource not found in resource map")
  ELSE Value(RelationConnection(name, key, cardinality))

DeclareWithReferencer ==
  /\ CanDeclare
  /\ \E source \in Keys, name \in RelationNames, key \in Targets,
        cardinality \in RelationCardinality :
       LET d == createAccessorProxy(resourceMap, key, name, cardinality)
       IN IF d.kind = "throw" THEN Abort ELSE AddConnection(source, d.value)

\* RelationGraph.create: the constructor runs createGraphData and assigns the
\* two fields only when it returned
Create ==
  /\ phase = "declaring"
  /\ LET g == createGraphData(resourceMap, connections)
     IN IF g.kind = "throw"
        THEN /\ phase' = "failed"
             /\ UNCHANGED <<relations, adjacencyList>>
        ELSE /\ phase' = "built"
             /\ relations' = g.relations
             /\ adjacencyList' = g.adjacencyList
  /\ UNCHANGED <<resourceMap, connections, call, ret>>
  /\ UNCHANGED resolverVars

BuildNext ==
  \/ DeclareLiteral
  \/ DeclareWithConnector
  \/ DeclareWithReferencer
  \/ Create

BuildSpec == Init /\ [][BuildNext]_vars

----------------------------------------------------------------------------
(* Graph construction: properties under BuildSpec *)

\* the targets the descriptors name
DeclaredTargets ==
  UNION {{connections[k][i].target : i \in 1..Len(connections[k])} : k \in Keys}

\* C1: building never returns a graph when a descriptor names a target that
\* is no key of the resource map: whenever a graph has been built, every
\* declared target is a key, and as long as none has been built (an accessor
\* or the assembly threw) no relations and no adjacency list are observable.
C1_UnknownTargetNeverBuilds ==
  /\ phase = "built" => DeclaredTargets \subseteq DOMAIN resourceMap
  /\ phase # "built" => relations = NoGraph /\ adjacencyList = NoGraph

\* C8: after every successful construction the keys of adjacencyList and of
\* relations are the keys of the resource map, and every name in an
\* adjacency set is a key of the resource map.
C8_GraphKeysAreResourceKeys ==
  phase = "built" =>
    /\ DOMAIN adjacencyList = DOMAIN resourceMap
    /\ DOMAIN relations = DOMAIN resourceMap
    /\ \A k \in DOMAIN adjacencyList :
         Range(adjacencyList[k]) \subseteq DOMAIN resourceMap

\* the last descriptor of `source` that bears `name`
LastDescriptor(conns, source, name) ==
  LET ds == conns[source]
      I == {i \in 1..Len(ds) : ds[i].name = name}
  IN ds[CHOOSE i \in I : \A j \in I : j <= i]

\* the names the descriptors of `source` bear
NamesOf(conns, source) ==
  {conns[source][i].name : i \in 1..Len(conns[source])}

\* C21: when descriptors of one source share a name, construction raises no
\* error (create fails only when some descriptor names a target that is no
\* key) and the relation map of the source has one relation per declared
\* name: the one built from the last descriptor of that name, with its target
\* and its cardinality; the other relations of the source are what their own
\* descriptors say.
C21_LaterDescriptorWins ==
  [][Create =>
       /\ DeclaredTargets \subseteq DOMAIN resourceMap => phase' = "built"
       /\ phase' = "built" =>
            \A k \in Keys :
              /\ Len(relations'[k].relations)
                   = Cardinality(NamesOf(connections, k))
              /\ \A name \in NamesOf(connections, k) :
                   LET d == LastDescriptor(connections, k, name)
                   IN d.target \in DOMAIN resourceMap =>
                        RelGet(relations'[k].relations, name) =
                          Relation(resourceMap[k], resourceMap[d.target],
                                   name, d.cardinality)]_vars

\* a graph was built from two descriptors of one source and one name that
\* differ in target and cardinality, next to a relation of another name
C21_Witness ==
  /\ phase = "built"
  /\ \E k \in Keys :
       \E i, j \in 1..Len(connections[k]) :
         /\ i < j
         /\ connections[k][i].name = connections[k][j].name
         /\ connections[k][i].target # connections[k][j].target
         /\ connections[k][i].cardinality # connections[k][j].cardinality
         /\ Cardinality(NamesOf(connections, k)) = 2
         /\ Len(relations[k].relations) = 2

----------------------------------------------------------------------------
(* RelationGraph: lookups *)

\* this.relations[name].resource
getResource(name) ==
  LET entry == ObjGet(relations, name)
  IN IF entry.kind = "undefined" THEN Throw("TypeError")
     ELSE IF entry.kind = "function" THEN Value(Undefined)
     ELSE Value(entry.resource)

\* this.relations[resourceName].relations
getRelationsFor(resourceName) ==
  LET entry == ObjGet(relations, resourceName)
  IN IF entry.kind = "undefined" THEN Throw("TypeError")
     ELSE IF entry.kind = "function" THEN Value(Undefined)
     ELSE Value([kind |-> "relations", map |-> entry.relations])

\* this.getRelationsFor(resourceName)[relationName]
getRelation(resourceName, relationName) ==
  LET rels == getRelationsFor(resourceName)
  IN IF rels.kind = "throw" THEN rels
     ELSE IF rels.value.kind = "undefined" THEN Throw("TypeError")
     ELSE Value(RelGet(rels.value.map, relationName))

\* the elements of a finite set, one after the other
RECURSIVE SeqOfSet(_)
SeqOfSet(S) ==
  IF S = {} THEN <<>>
  ELSE LET x == CHOOSE y \in S : TRUE IN <<x>> \o SeqOfSet(S \ {x})

\* the adjacent resources, edges taken in both directions
getAdjacentResources_Undirected(resourceName) ==
  IF resourceName \in DOMAIN adjacencyList
  THEN adjacencyList[resourceName] \o
       SeqOfSet({source \in DOMAIN adjacencyList :
                   /\ resourceName \in Range(adjacencyList[source])
                   /\ source \notin Range(adjacencyList[resourceName])})
  ELSE <<>>

\* Array.from(this.adjacencyList.get(resourceName) || [])
getAdjacentResources(resourceName) ==
  IF resourceName \in DOMAIN adjacencyList
  THEN adjacencyList[resourceName]
  ELSE <<>>

\* the counts, a resource's edge to itself left out of its incoming count
getResourcesWithRelationCounts_OthersOnly ==
  [resourceName \in DOMAIN relations |->
     [outgoing |-> Len(relations[resourceName].relations),
      incoming |->
        Cardinality({source \in DOMAIN adjacencyList \ {resourceName} :
                       resourceName \in Range(adjacencyList[source])})]]

getResourcesWithRelationCounts ==
  [resourceName \in DOMAIN relations |->
     [outgoing |-> Len(relations[resourceName].relations),
      incoming |->
        Cardinality({source \in DOMAIN adjacencyList :
                       resourceName \in Range(adjacencyList[source])})]]

----------------------------------------------------------------------------
(* RelationGraph.findShortestPath *)

Null == [kind |-> "null"]

\* the loop that marks a resource as visited when it is dequeued (the last
\* of `path`) and not when it is enqueued
RECURSIVE ScanAdjacent_MarksOnDequeue(_, _, _, _, _)
ScanAdjacent_MarksOnDequeue(adjacentResources, path, queue, visited, toResource) ==
  IF adjacentResources = <<>>
  THEN [kind |-> "continue", queue |-> queue,
        visited |-> visited \cup {path[Len(path)]}]
  ELSE
    LET nextResource == Head(adjacentResources)
    IN IF nextResource = toResource
       THEN [kind |-> "found", path |-> Append(path, nextResource),
             queue |-> queue, visited |-> visited]
       ELSE IF nextResource \notin visited \cup {path[Len(path)]}
       THEN ScanAdjacent_MarksOnDequeue(Tail(adjacentResources), path,
              Append(queue, [resourceName |-> nextResource,
                             path |-> Append(path, nextResource)]),
              visited, toResource)
       ELSE ScanAdjacent_MarksOnDequeue(Tail(adjacentResources), path, queue,
                                        visited, toResource)

\* the loop over the resources adjacent to the dequeued one; when it returns
\* the path found, queue and visited are as they were at that moment
RECURSIVE ScanAdjacent(_, _, _, _, _)
ScanAdjacent(adjacentResources, path, queue, visited, toResource) ==
  IF adjacentResources = <<>>
  THEN [kind |-> "continue", queue |-> queue, visited |-> visited]
  ELSE
    LET nextResource == Head(adjacentResources)
    IN IF nextResource = toResource
       THEN [kind |-> "found", path |-> Append(path, nextResource),
             queue |-> queue, visited |-> visited]
       ELSE IF nextResource \notin visited
       THEN ScanAdjacent(Tail(adjacentResources), path,
              Append(queue, [resourceName |-> nextResource,
                             path |-> Append(path, nextResource)]),
              visited \cup {nextResource}, toResource)
       ELSE ScanAdjacent(Tail(adjacentResources), path, queue, visited,
                         toResource)

\* the while loop over the queue
RECURSIVE BfsLoop(_, _, _)
BfsLoop(queue, visited, toResource) ==
  IF queue = <<>> THEN Null
  ELSE
    LET current == Head(queue)
        step == ScanAdjacent(getAdjacentResources(current.resourceName),
                             current.path, Tail(queue), visited, toResource)
    IN IF step.kind = "found" THEN Value(step.path)
       ELSE BfsLoop(step.queue, step.visited, toResource)

\* the resources the while loop pushes to the queue from here on, in the
\* order of the pushes
RECURSIVE Enqueued(_, _, _)
Enqueued(queue, visited, toResource) ==
  IF queue = <<>> THEN <<>>
  ELSE
    LET current == Head(queue)
        step == ScanAdjacent(getAdjacentResources(current.resourceName),
                             current.path, Tail(queue), visited, toResource)
        pushed == [i \in 1..(Len(step.queue) - Len(queue) + 1) |->
                     step.queue[Len(queue) - 1 + i].resourceName]
    IN IF step.kind = "found" THEN pushed
       ELSE pushed \o Enqueued(step.queue, step.visited, toResource)

\* the search without the early return for fromResource = toResource
findShortestPath_NoEarlyReturn(fromResource, toResource) ==
  BfsLoop(<<[resourceName |-> fromResource, path |-> <<fromResource>>]>>,
          {fromResource}, toResource)

findShortestPath(fromResource, toResource) ==
  IF fromResource = toResource THEN Value(<<fromResource>>)
  ELSE BfsLoop(<<[resourceName |-> fromResource, path |-> <<fromResource>>]>>,
               {fromResource}, toResource)

----------------------------------------------------------------------------
(* RelationGraph.isValidRelationPath *)

\* the loop over the segments
RECURSIVE WalkSegments(_, _)
WalkSegments(segments, currentResource) ==
  IF segments = <<>> THEN Value(TRUE)
  ELSE
    LET rels == getRelationsFor(currentResource)
    IN IF rels.kind = "throw" THEN rels
       ELSE IF rels.value.kind = "undefined" THEN Throw("TypeError")
       ELSE
         LET relation == RelGet(rels.value.map, Head(segments))
         IN IF ~Truthy(relation) THEN Value(FALSE)
            ELSE IF relation.kind = "function" THEN Throw("TypeError")
            ELSE WalkSegments(Tail(segments), relation.target.name)

isValidRelationPath(resourceName, path) ==
  IF path = <<>> THEN Value(FALSE)
  ELSE WalkSegments(Split(path, KEY_PATH_SEPARATOR), resourceName)

----------------------------------------------------------------------------
(* RelationGraph.getRelationPaths *)

\* collectRelationPaths, and the loop over Object.entries(relations) in it;
\* result is the list of paths so far, and a throw replaces it
RECURSIVE collectRelationPaths(_, _, _, _, _)
RECURSIVE CollectEntries(_, _, _, _, _)
collectRelationPaths(resourceName, currentPath, result, remainingDepth, visited) ==
  IF remainingDepth <= 0 \/ resourceName \in visited THEN Value(result)
  ELSE
    LET rels == getRelationsFor(resourceName)
    IN IF rels.kind = "throw" THEN rels
       ELSE IF rels.value.kind = "undefined" THEN Throw("TypeError")
       ELSE CollectEntries(rels.value.map, currentPath, result,
                           remainingDepth, visited \cup {resourceName})

CollectEntries(entries, currentPath, result, remainingDepth, visited) ==
  IF entries = <<>> THEN Value(result)
  ELSE
    LET relation == Head(entries)
        newPath == createKeyPath(currentPath, relation.name)
        nested == collectRelationPaths(relation.target.name, newPath,
                    Append(result, newPath), remainingDepth - 1, visited)
    IN IF nested.kind = "throw" THEN nested
       ELSE CollectEntries(Tail(entries), currentPath, nested.value,
                           remainingDepth, visited)

\* the loop of getRelationPaths over the relations of resourceName
RECURSIVE DirectEntries(_, _, _, _)
DirectEntries(entries, resourceName, paths, maxDepth) ==
  IF entries = <<>> THEN Value(paths)
  ELSE
    LET relation == Head(entries)
        nested == collectRelationPaths(relation.target.name, relation.name,
                    Append(paths, relation.name), maxDepth - 1,
                    {resourceName})
    IN IF nested.kind = "throw" THEN nested
       ELSE DirectEntries(Tail(entries), resourceName, nested.value, maxDepth)

getRelationPaths(resourceName, maxDepth) ==
  LET rels == getRelationsFor(resourceName)
  IN IF rels.kind = "throw" THEN rels
     ELSE IF rels.value.kind = "undefined" THEN Throw("TypeError")
     ELSE DirectEntries(rels.value.map, resourceName, <<>>, maxDepth)

----------------------------------------------------------------------------
(* Queries on a built graph *)

\* names handed to getResource: the keys and a name that is no key
ResourceArgs == Keys \cup {"d"}

\* segments of the paths handed to isValidRelationPath: the relation names
\* and a name every plain object inherits
SegmentArgs == RelationNames \cup {<<"constructor">>}

RECURSIVE JoinSegments(_)
JoinSegments(segments) ==
  IF Len(segments) = 1 THEN segments[1]
  ELSE createKeyPath(JoinSegments(SubSeq(segments, 1, Len(segments) - 1)),
                     segments[Len(segments)])

\* the path strings handed to isValidRelationPath: the empty string and the
\* strings of 1 to MaxSegments segments
PathArgs ==
  {<<>>} \cup
  {JoinSegments(segments) :
     segments \in UNION {[1..n -> SegmentArgs] : n \in 1..MaxSegments}}

\* a query is made on a built graph that is not answering another one
Answer(c, r) ==
  /\ phase = "built"
  /\ call = NoCall
  /\ call' = c
  /\ ret' = r
  /\ UNCHANGED <<resourceMap, connections, phase, relations, adjacencyList>>
  /\ UNCHANGED resolverVars

GetResource ==
  \E name \in ResourceArgs :
    Answer([op |-> "getResource", name |-> name], getResource(name))

GetRelation ==
  \E resourceName \in Keys, relationName \in SegmentArgs :
    Answer([op |-> "getRelation", resourceName |-> resourceName,
            relationName |-> relationName],
           getRelation(resourceName, relationName))

GetResourcesWithRelationCounts ==
  Answer([op |-> "getResourcesWithRelationCounts"],
         Value(getResourcesWithRelationCounts))

GetRelationPaths ==
  \E resourceName \in Keys, maxDepth \in 0..MaxDepth :
    Answer([op |-> "getRelationPaths", resourceName |-> resourceName,
            maxDepth |-> maxDepth],
           getRelationPaths(resourceName, maxDepth))

FindShortestPath ==
  \E fromResource \in ResourceArgs, toResource \in ResourceArgs :
    Answer([op |-> "findShortestPath", fromResource |-> fromResource,
            toResource |-> toResource],
           findShortestPath(fromResource, toResource))

IsValidRelationPath ==
  \E resourceName \in Keys, path \in PathArgs :
    Answer([op |-> "isValidRelationPath", resourceName |-> resourceName,
            path |-> path],
           isValidRelationPath(resourceName, path))

\* the caller takes the answer; the graph is as it was
Return ==
  /\ call # NoCall
  /\ call' = NoCall
  /\ ret' = NoCall
  /\ UNCHANGED <<resourceMap, connections, phase, relations, adjacencyList>>
  /\ UNCHANGED resolverVars

\* the declarations of the graphs that are queried: literal descriptors whose
\* targets are keys of the map (no query reads the cardinality)
DeclareRelation ==
  /\ CanDeclare
  /\ \E source \in Keys, name \in RelationNames, target \in Keys :
       AddConnection(source, RelationConnection(name, target, "one"))

Next ==
  \/ DeclareRelation
  \/ Create
  \/ GetResource
  \/ GetRelation
  \/ GetResourcesWithRelationCounts
  \/ GetRelationPaths
  \/ FindShortestPath
  \/ IsValidRelationPath
  \/ Return

Spec == Init /\ [][Next]_vars

----------------------------------------------------------------------------
(* Queries: properties under Spec *)

\* an edge of the adjacency list
Edge(s, t) == s \in DOMAIN adjacencyList /\ t \in Range(adjacencyList[s])

\* the names a search can be asked about or can meet
Nodes ==
  ResourceArgs \cup UNION {Range(adjacencyList[s]) : s \in DOMAIN adjacencyList}

\* the resources that at most n edges lead to
RECURSIVE ReachableWithin(_, _)
ReachableWithin(from, n) ==
  IF n = 0 THEN {from}
  ELSE LET r == ReachableWithin(from, n - 1)
       IN r \cup {t \in Nodes : \E s \in r : Edge(s, t)}

Reachable(from, to) == to \in ReachableWithin(from, Cardinality(Nodes))

MinHops(from, to) ==
  CHOOSE n \in 0..Cardinality(Nodes) :
    /\ to \in ReachableWithin(from, n)
    /\ \A m \in 0..(n - 1) : to \notin ReachableWithin(from, m)

IsDirectedPath(p) == \A i \in 1..(Len(p) - 1) : Edge(p[i], p[i + 1])

\* C2: when `to` is reachable from `from` along adjacency edges,
\* findShortestPath(from, to) returns a list that starts with `from`, ends
\* with `to`, joins every consecutive pair by an adjacency edge and has
\* minimum hop count + 1 elements; it is [from] when from = to.
C2_ShortestPathIsShortest ==
  (call.op = "findShortestPath"
     /\ Reachable(call.fromResource, call.toResource)) =>
    /\ ret.kind = "value"
    /\ ret.value # <<>>
    /\ ret.value[1] = call.fromResource
    /\ ret.value[Len(ret.value)] = call.toResource
    /\ IsDirectedPath(ret.value)
    /\ Len(ret.value) = MinHops(call.fromResource, call.toResource) + 1
    /\ call.fromResource = call.toResource => ret.value = <<call.fromResource>>

\* a direct edge is returned although the first adjacent resource of `from`
\* starts a longer way to `to`
C2_Witness ==
  /\ call.op = "findShortestPath"
  /\ ret.kind = "value"
  /\ Len(ret.value) = 2
  /\ \E m \in Keys \ {call.fromResource, call.toResource} :
       /\ adjacencyList[call.fromResource][1] = m
       /\ Edge(m, call.toResource)

\* C3: findShortestPath(from, to) returns null exactly when from differs from
\* to and no directed path of adjacency edges leads from `from` to `to`;
\* edges are not followed backwards.
C3_NullIffUnreachable ==
  call.op = "findShortestPath" =>
    (ret = Null <=>
       (call.fromResource # call.toResource
          /\ ~Reachable(call.fromResource, call.toResource)))

\* null is returned although edges lead from `to` back to `from`
C3_Witness ==
  /\ call.op = "findShortestPath"
  /\ ret = Null
  /\ Reachable(call.toResource, call.fromResource)

\* the descriptors of `source` declare a relation `name`
Declares(source, name) ==
  \E i \in 1..Len(connections[source]) : connections[source][i].name = name

\* the key the relation `name` of `source` leads to: the target of the last
\* descriptor of `source` that bears the name
DeclaredTarget(source, name) ==
  LET ds == connections[source]
      I == {i \in 1..Len(ds) : ds[i].name = name}
  IN ds[CHOOSE i \in I : \A j \in I : j <= i].target

\* every segment names a relation declared for the resource reached so far
RECURSIVE ValidFrom(_, _)
ValidFrom(source, segments) ==
  \/ segments = <<>>
  \/ /\ Declares(source, Head(segments))
     /\ ValidFrom(DeclaredTarget(source, Head(segments)), Tail(segments))

\* the resource the i-th segment departs from
RECURSIVE DepartureAt(_, _, _)
DepartureAt(source, segments, i) ==
  IF i = 1 THEN source
  ELSE DepartureAt(DeclaredTarget(source, Head(segments)), Tail(segments),
                   i - 1)

\* C4: isValidRelationPath(resourceName, path) is true exactly when the path
\* is not empty and each of its segments, in order, names a relation
\* declared for the resource reached so far, the walk moving on to the
\* target of the relation matched; otherwise it is false.
C4_ValidIffWalkable ==
  call.op = "isValidRelationPath" =>
    ret = Value(call.path # <<>> /\ ValidFrom(call.resourceName,
                                               Split(call.path, ".")))

\* C5: getRelationPaths(resourceName, 0) is the empty list, for every
\* resource.
C5_DepthZeroIsEmpty ==
  (call.op = "getRelationPaths" /\ call.maxDepth = 0) => ret = Value(<<>>)

\* the lists of 1 to maxDepth relation names that are valid from
\* resourceName and whose segments depart from pairwise distinct resources
AcyclicValidSegmentLists(resourceName, maxDepth) ==
  {segments \in UNION {[1..n -> RelationNames] : n \in 1..maxDepth} :
     /\ ValidFrom(resourceName, segments)
     /\ \A i, j \in 1..Len(segments) :
          i < j => DepartureAt(resourceName, segments, i)
                     # DepartureAt(resourceName, segments, j)}

\* C6: for maxDepth >= 1, getRelationPaths(resourceName, maxDepth) returns
\* exactly the paths of 1 to maxDepth segments that are valid from
\* resourceName and whose segments depart from pairwise distinct resources,
\* the partial paths among them.
C6_PathsAreTheAcyclicValidOnes ==
  (call.op = "getRelationPaths" /\ call.maxDepth >= 1) =>
    /\ ret.kind = "value"
    /\ Range(ret.value) =
         {JoinSegments(segments) :
            segments \in AcyclicValidSegmentLists(call.resourceName,
                                                  call.maxDepth)}

\* the names the descriptors of a resource bear
DeclaredNames(source) ==
  {connections[source][i].name : i \in 1..Len(connections[source])}

\* C7, as the specification states it: outgoing is the number of relations
\* declared for the resource, incoming the number of other resources whose
\* adjacency set contains it.
C7_IncomingCountsOthersOnly ==
  call.op = "getResourcesWithRelationCounts" =>
    \A r \in Keys :
      /\ ret.value[r].outgoing = Cardinality(DeclaredNames(r))
      /\ ret.value[r].incoming =
           Cardinality({s \in Keys \ {r} : Edge(s, r)})

\* C7: getResourcesWithRelationCounts() reports for every resource
\* outgoing = the number of relation names declared for it (descriptors that
\* share a name count once) and incoming = the number of resources, the
\* resource itself included, whose adjacency set contains its name.
C7_CountsIncludeSelf ==
  call.op = "getResourcesWithRelationCounts" =>
    /\ ret.kind = "value"
    /\ DOMAIN ret.value = Keys
    /\ \A r \in Keys :
         /\ ret.value[r].outgoing = Cardinality(DeclaredNames(r))
         /\ ret.value[r].incoming = Cardinality({s \in Keys : Edge(s, r)})

\* the counts of a resource that has a relation to itself, two descriptors
\* of one name and an edge from another resource
C7_Witness ==
  /\ call.op = "getResourcesWithRelationCounts"
  /\ \E r \in Keys :
       /\ Edge(r, r)
       /\ Len(connections[r]) > Cardinality(DeclaredNames(r))
       /\ \E s \in Keys \ {r} : Edge(s, r)
       /\ ret.value[r].incoming = 2

\* C9: getResource of a name that is no key of the resource map, and
\* getRelation of an existing resource with a relation name it does not
\* declare, return undefined and do not throw.
C9_AbsentIsUndefined ==
  /\ (call.op = "getResource" /\ call.name \notin DOMAIN resourceMap)
       => ret = Value(Undefined)
  /\ (call.op = "getRelation" /\ call.resourceName \in DOMAIN resourceMap
        /\ ~Declares(call.resourceName, call.relationName))
       => ret = Value(Undefined)

\* no element occurs twice
NoRepeat(seq) == \A i, j \in 1..Len(seq) : i # j => seq[i] # seq[j]

\* every resource findShortestPath(from, to) puts in its queue, the first
\* being `from`
EverEnqueued(fromResource, toResource) ==
  IF fromResource = toResource THEN <<>>
  ELSE <<fromResource>> \o
       Enqueued(<<[resourceName |-> fromResource, path |-> <<fromResource>>]>>,
                {fromResource}, toResource)

\* C25: findShortestPath returns, on graphs with cycles and self-relations
\* too: its answer is null or a list of resources; no resource enters the
\* queue (and so the visited set) more than once, and the returned list
\* names no resource twice.
C25_SearchVisitsEachResourceOnce ==
  call.op = "findShortestPath" =>
    /\ ret = Null \/ ret.kind = "value"
    /\ NoRepeat(EverEnqueued(call.fromResource, call.toResource))
    /\ ret # Null => NoRepeat(ret.value)

\* the search gave up on a graph in which `from` has a relation to itself
\* and lies on a cycle, after it had met `from` again
C25_Witness ==
  /\ call.op = "findShortestPath"
  /\ ret = Null
  /\ Edge(call.fromResource, call.fromResource)
  /\ \E m \in Keys \ {call.fromResource} :
       /\ Edge(call.fromResource, m)
       /\ Edge(m, call.fromResource)
       /\ EverEnqueued(call.fromResource, call.toResource)
            = <<call.fromResource, m>>

\* some relation of the relation map of `source`, as getRelationsFor
\* returns it, has the resource stored under `target` as its target
Realised(source, target) ==
  LET rels == getRelationsFor(source)
  IN /\ rels.kind = "value"
     /\ rels.value.kind = "relations"
     /\ \E i \in 1..Len(rels.value.map) :
          rels.value.map[i].target = resourceMap[target]

\* C26: in a built graph the adjacency list and the relation maps describe
\* the same edges: T is in adjacencyList[S] exactly when a relation of S has
\* T as its target, descriptors that share a name included; so every hop of
\* a path findShortestPath returns is realised by a relation.
C26_AdjacencyMatchesRelations ==
  /\ phase = "built" =>
       \A S \in Keys, T \in Keys : Edge(S, T) <=> Realised(S, T)
  /\ (call.op = "findShortestPath" /\ ret # Null) =>
       \A i \in 1..(Len(ret.value) - 1) :
         Realised(ret.value[i], ret.value[i + 1])

----------------------------------------------------------------------------
(* Graphs whose relation names may hold the separator *)

\* the names handed to as(name): any string, "p.q" among them
SeparatorNames == RelationNames \cup {<<"p", KEY_PATH_SEPARATOR, "q">>}

NameInit ==
  /\ resourceMap = CombineResources
  /\ connections = [k \in Keys |-> <<>>]
  /\ phase = "declaring"
  /\ relations = NoGraph
  /\ adjacencyList = NoGraph
  /\ call = NoCall
  /\ ret = NoCall
  /\ pathAsked = <<>>
  /\ instance = NoInstance
  /\ now = 0
  /\ heap = <<>>

DeclareNamed ==
  /\ CanDeclare
  /\ \E source \in Keys, name \in SeparatorNames, target \in Keys :
       AddConnection(source, RelationConnection(name, target, "one"))

NameNext ==
  \/ DeclareNamed
  \/ Create
  \/ GetRelationPaths
  \/ Return

NameSpec == NameInit /\ [][NameNext]_vars

Min(m, n) == IF m <= n THEN m ELSE n

\* C28: getRelationPaths returns or throws on every graph, cyclic or not,
\* and no path it returns has more segments than min(maxDepth, number of
\* resources of the graph).
C28_PathsAreBoundedByDepth ==
  call.op = "getRelationPaths" =>
    /\ ret.kind \in {"value", "throw"}
    /\ ret.kind = "value" =>
         \A i \in 1..Len(ret.value) :
           Len(Split(ret.value[i], KEY_PATH_SEPARATOR))
             <= Min(call.maxDepth, Cardinality(DOMAIN resourceMap))

\* every segment of the path is a relation name
NamedSegments(pathString) ==
  \A i \in 1..Len(Split(pathString, KEY_PATH_SEPARATOR)) :
    Split(pathString, KEY_PATH_SEPARATOR)[i] \in RelationNames

\* C30: in a built graph the name of every relation target is the key under
\* which that target is stored, for maps made by combineResources and for
\* maps written by hand; so getRelationPaths, and isValidRelationPath on a
\* path of relation names, look up keys of the graph only and do not throw.
C30_TargetNameIsItsKey ==
  /\ phase = "built" =>
       \A k \in DOMAIN relations :
         \A i \in 1..Len(relations[k].relations) :
           LET target == relations[k].relations[i].target
           IN /\ target.name \in DOMAIN relations
              /\ relations[target.name].resource = target
  /\ call.op = "getRelationPaths" => ret.kind = "value"
  /\ (call.op = "isValidRelationPath" /\ NamedSegments(call.path))
       => ret.kind = "value"

----------------------------------------------------------------------------
(* Attributes *)

DEFAULT_ATTRIBUTE_FLAGS ==
  [selectable |-> TRUE, filterable |-> TRUE, sortable |-> TRUE,
   nullable |-> FALSE, optional |-> FALSE, readonly |-> FALSE]

\* an attribute instance: the class it was constructed with (what instanceof
\* sees), its type tag, its definition and its flags
Attribute(class, type, def, flags) ==
  [kind |-> "attribute", class |-> class, type |-> type, def |-> def,
   flags |-> flags]

\* attr instanceof class
InstanceOf(attr, class) == attr.kind = "attribute" /\ attr.class = class

\* string()
string ==
  Attribute("StringAttribute", "string", [empty |-> TRUE],
            DEFAULT_ATTRIBUTE_FLAGS)

\* object(shape)
object(shape) ==
  Attribute("ObjectAttribute", "object", [shape |-> shape],
            DEFAULT_ATTRIBUTE_FLAGS)

\* array(itemType)
array(itemType) ==
  Attribute("ArrayAttribute", "array", [itemType |-> itemType],
            DEFAULT_ATTRIBUTE_FLAGS)

\* oneOf(discriminator, cases)
oneOf(discriminator, cases) ==
  Attribute("OneOfAttribute", "oneOf",
            [cases |-> cases, discriminator |-> discriminator],
            DEFAULT_ATTRIBUTE_FLAGS)

\* attr.selectable(value): a new Attribute of the base class
selectable(attr, value) ==
  Attribute("Attribute", attr.type, attr.def,
            [attr.flags EXCEPT !.selectable = value])

\* attr.filterable(value)
filterable(attr, value) ==
  Attribute("Attribute", attr.type, attr.def,
            [attr.flags EXCEPT !.filterable = value])

\* attr.sortable(value)
sortable(attr, value) ==
  Attribute("Attribute", attr.type, attr.def,
            [attr.flags EXCEPT !.sortable = value])

\* attr.optional(value): a new Attribute of the base class
optional(attr, value) ==
  Attribute("Attribute", attr.type, attr.def,
            [attr.flags EXCEPT !.optional = value])

\* attr.nullable(value), the flags taken from the defaults and not from the
\* receiver
nullable_FromDefaults(attr, value) ==
  Attribute("Attribute", attr.type, attr.def,
            [DEFAULT_ATTRIBUTE_FLAGS EXCEPT !.nullable = value])

\* attr.nullable(value)
nullable(attr, value) ==
  Attribute("Attribute", attr.type, attr.def,
            [attr.flags EXCEPT !.nullable = value])

\* attr.readonly(value)
readonly(attr, value) ==
  Attribute("Attribute", attr.type, attr.def,
            [attr.flags EXCEPT !.readonly = value])

\* attr.clone()
clone(attr) == Attribute("Attribute", attr.type, attr.def, attr.flags)

\* the metadata a constructor call without `meta` starts with: {}
NoMetadata == [description |-> Undefined]

\* an instance on the heap: the attribute and its metadata object
Instance(attribute, metadata) ==
  [attribute |-> attribute, metadata |-> metadata]

\* name in attributes, on a plain object
In(name, attributes) ==
  name \in DOMAIN attributes \/ name \in {<<k>> : k \in ObjectPrototypeKeys}

\* attributes[name], on a plain object
AttrGet(attributes, name) ==
  IF name \in DOMAIN attributes THEN attributes[name]
  ELSE IF name \in {<<k>> : k \in ObjectPrototypeKeys} THEN ObjectFunction
  ELSE Undefined

----------------------------------------------------------------------------
(* ResourcePathResolver: strings and results *)

DEFAULT_PATH_SEPARATOR == "."

ARRAY_MARKER == "[]"

OPTIONAL_MARKER == "?"

\* a string value: the sequence of its symbols
Str(chars) == [kind |-> "string", chars |-> chars]

ERROR_MESSAGE ==
  [EMPTY_PATH |-> "Path cannot be empty",
   UNDEFINED_SEGMENT |-> "Path segment is undefined",
   ATTRIBUTE_NOT_FOUND |-> "Attribute \"{0}\" not found",
   NOT_ARRAY |-> "Attribute \"{0}\" is not an array",
   ARRAY_ITEMS_NOT_OBJECTS |->
     "Array items are not objects, cannot navigate deeper",
   CANNOT_NAVIGATE_PRIMITIVE |->
     "Cannot navigate deeper into primitive attribute \"{0}\"",
   NOT_FOUND_IN_ONEOF |-> "Attribute not found in any case of OneOf"]

\* a message of ERROR_MESSAGE as it is
Message(template) == [kind |-> "string", template |-> template, arg |-> <<>>]

\* template.replace('{0}', arg)
Replace(template, arg) ==
  [kind |-> "string", template |-> template, arg |-> arg]

\* pathSegment.endsWith(marker)
endsWith(pathSegment, marker) ==
  pathSegment # <<>> /\ pathSegment[Len(pathSegment)] = marker

isOptionalSegment(pathSegment) == endsWith(pathSegment, OPTIONAL_MARKER)

isArraySegment(pathSegment) == endsWith(pathSegment, ARRAY_MARKER)

removeOptionalMarker(pathSegment) ==
  IF isOptionalSegment(pathSegment)
  THEN SubSeq(pathSegment, 1, Len(pathSegment) - 1)
  ELSE pathSegment

removeArrayMarker(pathSegment) ==
  IF isArraySegment(pathSegment)
  THEN SubSeq(pathSegment, 1, Len(pathSegment) - 1)
  ELSE pathSegment

\* a PathValidationResult; a field that is left out is Undefined
PathValidationResult(valid, parentAttribute, lastValidSegment, attributeName, fullPath, error, attribute) ==
  [valid |-> valid, parentAttribute |-> parentAttribute,
   lastValidSegment |-> lastValidSegment, attributeName |-> attributeName,
   fullPath |-> fullPath, error |-> error, attribute |-> attribute]

\* { valid: false, error }
Invalid(error) ==
  PathValidationResult(FALSE, Undefined, Undefined, Undefined, Undefined,
                       error, Undefined)

\* value || ''
OrEmpty(value) ==
  IF value.kind = "string" /\ value.chars # <<>> THEN value ELSE Str(<<>>)

\* what processPathSegment hands back: a result, or undefined with the
\* context as it has changed it
Done(result) == [kind |-> "result", result |-> result]

Continue(context) == [kind |-> "continue", context |-> context]

\* context.lastValidSegment ? context.currentPath.slice(0, -(segment.length
\* + 1)) : ''
PathBefore(context, segment) ==
  IF context.lastValidSegment # <<>>
  THEN Str(SubSeq(context.currentPath, 1,
                  Len(context.currentPath) - (Len(segment) + 1)))
  ELSE Str(<<>>)

----------------------------------------------------------------------------
(* ResourcePathResolver: doValidatePath *)

\* this.pathSeparator
pathSeparator == instance.pathSeparator

\* processArraySegment(segment, isLast, context)
processArraySegment(segment, isLast, context) ==
  LET arrayName == removeArrayMarker(segment)
      arrayAttr == AttrGet(context.currentAttributes, arrayName)
  IN IF ~In(arrayName, context.currentAttributes)
     THEN Done(PathValidationResult(FALSE, context.parentAttribute,
                 Str(context.lastValidSegment), Str(context.attributeName),
                 PathBefore(context, segment),
                 Replace(ERROR_MESSAGE.ATTRIBUTE_NOT_FOUND, arrayName),
                 Undefined))
     ELSE IF ~InstanceOf(arrayAttr, "ArrayAttribute")
     THEN Done(PathValidationResult(FALSE, context.parentAttribute,
                 Str(context.lastValidSegment), Str(context.attributeName),
                 PathBefore(context, segment),
                 Replace(ERROR_MESSAGE.NOT_ARRAY, arrayName), Undefined))
     ELSE IF isLast
     THEN Done(PathValidationResult(TRUE, context.parentAttribute,
                 Str(segment), Str(arrayName), Str(context.currentPath),
                 Undefined, arrayAttr))
     ELSE IF ~InstanceOf(arrayAttr.def.itemType, "ObjectAttribute")
     THEN Done(PathValidationResult(FALSE, arrayAttr, Str(segment),
                 Str(arrayName), Str(context.currentPath),
                 Message(ERROR_MESSAGE.ARRAY_ITEMS_NOT_OBJECTS), Undefined))
     ELSE Continue([context EXCEPT
                      !.parentAttribute = arrayAttr,
                      !.currentAttributes = arrayAttr.def.itemType.def.shape,
                      !.lastValidSegment = segment,
                      !.attributeName = arrayName])

RECURSIVE processPathSegment(_, _, _, _)
RECURSIVE processOneOfSegment(_, _, _, _, _)
RECURSIVE processDiscriminatorSegment(_, _, _, _)
RECURSIVE checkAllCases(_, _, _, _, _)
RECURSIVE CheckCases(_, _, _)
RECURSIVE checkCasesAfterDiscriminator(_, _, _, _)
RECURSIVE validatePathInShape(_, _, _)
RECURSIVE SegmentLoop(_, _, _)

\* processPathSegment without the stop at a primitive: whatever is not the
\* last segment and no one-of is descended into as an object, an attribute
\* without a shape having no attribute to offer
processPathSegment_DescendsIntoAll(segment, isLast, context, remainingSegments) ==
  LET ctx == [context EXCEPT
                !.currentPath =
                  IF context.currentPath # <<>>
                  THEN context.currentPath \o <<context.pathSeparator>>
                         \o segment
                  ELSE segment]
      cleanSegment == removeOptionalMarker(segment)
      attr == AttrGet(ctx.currentAttributes, cleanSegment)
  IN IF isArraySegment(segment)
     THEN processArraySegment(segment, isLast, ctx)
     ELSE IF ~In(cleanSegment, ctx.currentAttributes)
     THEN Done(PathValidationResult(FALSE, ctx.parentAttribute,
                 Str(ctx.lastValidSegment), Str(ctx.attributeName),
                 PathBefore(ctx, segment),
                 Replace(ERROR_MESSAGE.ATTRIBUTE_NOT_FOUND, cleanSegment),
                 Undefined))
     ELSE IF isLast
     THEN Done(PathValidationResult(TRUE, ctx.parentAttribute, Str(segment),
                 Str(cleanSegment), Str(ctx.currentPath), Undefined, attr))
     ELSE IF ~InstanceOf(attr, "OneOfAttribute")
     THEN Continue([ctx EXCEPT
                      !.parentAttribute = attr,
                      !.currentAttributes =
                        IF InstanceOf(attr, "ObjectAttribute")
                        THEN attr.def.shape ELSE <<>>,
                      !.lastValidSegment = segment,
                      !.attributeName = cleanSegment])
     ELSE IF InstanceOf(attr, "OneOfAttribute")
     THEN Done(processOneOfSegment(attr, segment, cleanSegment, ctx,
                                   remainingSegments))
     ELSE Done(PathValidationResult(FALSE, attr, Str(segment),
                 Str(cleanSegment), Str(ctx.currentPath),
                 Replace(ERROR_MESSAGE.CANNOT_NAVIGATE_PRIMITIVE,
                         cleanSegment),
                 Undefined))

\* processPathSegment(segment, isLast, context, remainingSegments)
processPathSegment(segment, isLast, context, remainingSegments) ==
  LET ctx == [context EXCEPT
                !.currentPath =
                  IF context.currentPath # <<>>
                  THEN context.currentPath \o <<context.pathSeparator>>
                         \o segment
                  ELSE segment]
      cleanSegment == removeOptionalMarker(segment)
      attr == AttrGet(ctx.currentAttributes, cleanSegment)
  IN IF isArraySegment(segment)
     THEN processArraySegment(segment, isLast, ctx)
     ELSE IF ~In(cleanSegment, ctx.currentAttributes)
     THEN Done(PathValidationResult(FALSE, ctx.parentAttribute,
                 Str(ctx.lastValidSegment), Str(ctx.attributeName),
                 PathBefore(ctx, segment),
                 Replace(ERROR_MESSAGE.ATTRIBUTE_NOT_FOUND, cleanSegment),
                 Undefined))
     ELSE IF isLast
     THEN Done(PathValidationResult(TRUE, ctx.parentAttribute, Str(segment),
                 Str(cleanSegment), Str(ctx.currentPath), Undefined, attr))
     ELSE IF InstanceOf(attr, "ObjectAttribute")
     THEN Continue([ctx EXCEPT
                      !.parentAttribute = attr,
                      !.currentAttributes = attr.def.shape,
                      !.lastValidSegment = segment,
                      !.attributeName = cleanSegment])
     ELSE IF InstanceOf(attr, "OneOfAttribute")
     THEN Done(processOneOfSegment(attr, segment, cleanSegment, ctx,
                                   remainingSegments))
     ELSE Done(PathValidationResult(FALSE, attr, Str(segment),
                 Str(cleanSegment), Str(ctx.currentPath),
                 Replace(ERROR_MESSAGE.CANNOT_NAVIGATE_PRIMITIVE,
                         cleanSegment),
                 Undefined))

\* processOneOfSegment(attr, segment, cleanSegment, context,
\* remainingSegments); remainingSegments[0] is undefined when none remains
\* and !nextSegment holds for undefined and for the empty string
processOneOfSegment(attr, segment, cleanSegment, context, remainingSegments) ==
  IF remainingSegments = <<>> \/ Head(remainingSegments) = <<>>
  THEN PathValidationResult(TRUE, context.parentAttribute, Str(segment),
         Str(cleanSegment), Str(context.currentPath), Undefined, attr)
  ELSE IF Head(remainingSegments) = attr.def.discriminator
  THEN processDiscriminatorSegment(attr, Head(remainingSegments), context,
                                   Tail(remainingSegments))
  ELSE checkAllCases(attr, segment, cleanSegment, context, remainingSegments)

\* processDiscriminatorSegment(attr, discriminatorSegment, context,
\* remainingSegments)
processDiscriminatorSegment(attr, discriminatorSegment, context, remainingSegments) ==
  LET ctx == [context EXCEPT
                !.currentPath = context.currentPath
                  \o <<context.pathSeparator>> \o discriminatorSegment]
  IN IF Len(remainingSegments) = 0
     THEN PathValidationResult(TRUE, attr, Str(discriminatorSegment),
            Str(attr.def.discriminator), Str(ctx.currentPath), Undefined,
            attr)
     ELSE checkCasesAfterDiscriminator(attr, discriminatorSegment, ctx,
                                       remainingSegments)

\* the loop over attr._def.cases of checkAllCases and of
\* checkCasesAfterDiscriminator: the result made of the first case that
\* validates the remaining path, Undefined when there is none
CheckCases(cases, context, remainingSegments) ==
  IF cases = <<>> THEN Undefined
  ELSE
    LET caseObj == Head(cases)
        remainingPath == Join(remainingSegments, context.pathSeparator)
        result == validatePathInShape(caseObj.def.shape, remainingPath,
                                      caseObj)
    IN IF ~InstanceOf(caseObj, "ObjectAttribute")
       THEN CheckCases(Tail(cases), context, remainingSegments)
       ELSE IF result.valid
       THEN PathValidationResult(TRUE, result.parentAttribute,
              OrEmpty(result.lastValidSegment),
              OrEmpty(result.attributeName),
              Str(context.currentPath \o <<context.pathSeparator>>
                    \o remainingPath),
              Undefined, result.attribute)
       ELSE CheckCases(Tail(cases), context, remainingSegments)

\* checkAllCases(attr, segment, cleanSegment, context, remainingSegments)
checkAllCases(attr, segment, cleanSegment, context, remainingSegments) ==
  LET found == CheckCases(attr.def.cases, context, remainingSegments)
  IN IF found # Undefined THEN found
     ELSE PathValidationResult(FALSE, attr, Str(segment), Str(cleanSegment),
            Str(context.currentPath),
            Message(ERROR_MESSAGE.NOT_FOUND_IN_ONEOF), Undefined)

\* checkCasesAfterDiscriminator(attr, discriminatorSegment, context,
\* remainingSegments)
checkCasesAfterDiscriminator(attr, discriminatorSegment, context, remainingSegments) ==
  LET found == CheckCases(attr.def.cases, context, remainingSegments)
  IN IF found # Undefined THEN found
     ELSE PathValidationResult(FALSE, attr, Str(discriminatorSegment),
            Str(attr.def.discriminator), Str(context.currentPath),
            Message(ERROR_MESSAGE.NOT_FOUND_IN_ONEOF), Undefined)

\* the loop over the segments of doValidatePath and, word for word, of
\* validatePathInShape, from the i-th segment on, and the return after it
SegmentLoop(segments, i, context) ==
  IF i > Len(segments)
  THEN
    LET lastSegment == segments[Len(segments)]
    IN PathValidationResult(TRUE, context.parentAttribute, Str(lastSegment),
         Str(IF lastSegment # <<>> THEN removeOptionalMarker(lastSegment)
             ELSE <<>>),
         Str(context.currentPath), Undefined,
         IF lastSegment # <<>>
         THEN AttrGet(context.currentAttributes,
                      removeOptionalMarker(lastSegment))
         ELSE Undefined)
  ELSE
    LET segment == segments[i]
        step == processPathSegment(segment, i = Len(segments), context,
                                   SubSeq(segments, i + 1, Len(segments)))
    IN IF segment = <<>>
       THEN Invalid(Message(ERROR_MESSAGE.UNDEFINED_SEGMENT))
       ELSE IF step.kind = "result" THEN step.result
       ELSE SegmentLoop(segments, i + 1, step.context)

\* validatePathInShape(shape, remainingPath, parentAttr)
validatePathInShape(shape, remainingPath, parentAttr) ==
  SegmentLoop(Split(remainingPath, pathSeparator), 1,
    [currentAttributes |-> shape, parentAttribute |-> parentAttr,
     currentPath |-> <<>>, lastValidSegment |-> <<>>,
     attributeName |-> <<>>, pathSeparator |-> pathSeparator])

\* doValidatePath(resource, path)
doValidatePath(resource, path) ==
  IF path = <<>> THEN Invalid(Message(ERROR_MESSAGE.EMPTY_PATH))
  ELSE SegmentLoop(Split(path, pathSeparator), 1,
         [currentAttributes |-> resource.attributes,
          parentAttribute |-> Undefined, currentPath |-> <<>>,
          lastValidSegment |-> <<>>, attributeName |-> <<>>,
          pathSeparator |-> pathSeparator])

----------------------------------------------------------------------------
(* EphemeralCache and ResourcePathResolver.validatePath *)

CACHE_TTL_MINUTES == 1

secondsToMs(seconds) == seconds * 1000

minutesToMs(minutes) == secondsToMs(minutes * 60)

\* EphemeralCache.set(key, value): the map with the entry stored
CacheSet(cache, key, value, defaultTtlMs) ==
  [k \in DOMAIN cache \cup {key} |->
     IF k = key THEN [expiry |-> now + defaultTtlMs, value |-> value]
     ELSE cache[k]]

\* Map.delete(key)
CacheDelete(cache, key) == [k \in DOMAIN cache \ {key} |-> cache[k]]

\* get that takes an entry for expired from the millisecond of its expiry on
CacheGet_ExpiredAtExpiry(cache, key) ==
  IF key \notin DOMAIN cache THEN [value |-> Null, cache |-> cache]
  ELSE IF cache[key].expiry <= now
  THEN [value |-> Null, cache |-> CacheDelete(cache, key)]
  ELSE [value |-> cache[key].value, cache |-> cache]

\* EphemeralCache.get(key): the value or null, and the map as get leaves it
CacheGet(cache, key) ==
  IF key \notin DOMAIN cache THEN [value |-> Null, cache |-> cache]
  ELSE IF cache[key].expiry < now
  THEN [value |-> Null, cache |-> CacheDelete(cache, key)]
  ELSE [value |-> cache[key].value, cache |-> cache]

\* `${resource.name}:${path}` with the resource itself in the place of its
\* name
getCacheKey_ByIdentity(resource, path) == <<resource, ":">> \o path

\* `${resource.name}:${path}`
getCacheKey(resource, path) == <<resource.name, ":">> \o path

\* validatePath(resource, path): the result, the cache as the call leaves
\* it, and whether the result was the cached one (the return of line 148)
validatePath(resource, path) ==
  LET cacheKey == getCacheKey(resource, path)
      cached == CacheGet(instance.cache, cacheKey)
      result == doValidatePath(resource, path)
  IN IF instance.enableCache /\ cached.value # Null
     THEN [result |-> cached.value, cache |-> cached.cache, hit |-> TRUE]
     ELSE IF instance.enableCache
     THEN [result |-> result,
           cache |-> CacheSet(cached.cache, cacheKey, result,
                              instance.cacheTtlMs),
           hit |-> FALSE]
     ELSE [result |-> result, cache |-> instance.cache, hit |-> FALSE]

\* EphemeralCache.delete(...keys): keys.every((key) => this.cache.delete(key))
\* stops at the first key that Map.delete finds absent
RECURSIVE CacheDeleteEvery(_, _)
CacheDeleteEvery(cache, keys) ==
  IF keys = <<>> THEN [result |-> TRUE, cache |-> cache]
  ELSE IF Head(keys) \in DOMAIN cache
  THEN CacheDeleteEvery(CacheDelete(cache, Head(keys)), Tail(keys))
  ELSE [result |-> FALSE, cache |-> cache]

\* invalidateCachePaths(resource, ...paths): what it returns, and the cache
\* as it leaves it
invalidateCachePaths(resource, paths) ==
  LET keys == [i \in 1..Len(paths) |-> getCacheKey(resource, paths[i])]
  IN CacheDeleteEvery(instance.cache, keys)

\* EphemeralCache.clear()
CacheClear(cache) == <<>>

----------------------------------------------------------------------------
(* The resources and the paths handed to the resolver *)

\* a shape { a: string }
LeafShape == <<"a">> :> string

\* a one-of on the discriminator k: the first case has an attribute a, the
\* second a list l of objects
Cases ==
  << object((<<"k">> :> string) @@ (<<"a">> :> string)),
     object((<<"k">> :> string) @@ (<<"l">> :> array(object(LeafShape)))) >>

\* the resource "user", its attributes made with the typed constructors
UserResource ==
  Resource("user",
    (<<"a">> :> object((<<"a">> :> string) @@ (<<"l">> :> array(string))))
    @@ (<<"l">> :> array(object(LeafShape)))
    @@ (<<"p">> :> oneOf(<<"k">>, Cases))
    @@ (<<"k">> :> string))

\* the resource "post": the same names, the object, the list and the one-of
\* passed through optional()
PostResource ==
  Resource("post",
    (<<"a">> :> optional(object(LeafShape), TRUE))
    @@ (<<"l">> :> optional(array(object(LeafShape)), TRUE))
    @@ (<<"p">> :> optional(oneOf(<<"k">>, Cases), TRUE))
    @@ (<<"k">> :> string))

PathResources == {UserResource, PostResource}

\* the segments the paths are made of: attribute names, a name no shape
\* has, a name every plain object inherits, names with the optional and
\* the array marker, and the empty segment
PathSegments ==
  {<<"a">>, <<"l">>, <<"p">>, <<"k">>, <<"u">>, <<"constructor">>,
   <<"a", OPTIONAL_MARKER>>, <<"l", ARRAY_MARKER>>, <<"a", ARRAY_MARKER>>,
   <<>>}

\* the path strings: the empty string and the strings of 1 to
\* MaxPathSegments segments joined by the separator
PathStrings ==
  {<<>>} \cup
  {Join(segments, DEFAULT_PATH_SEPARATOR) :
     segments \in UNION {[1..n -> PathSegments] : n \in 1..MaxPathSegments}}

----------------------------------------------------------------------------
(* The path resolver and its callers *)

PathInit ==
  /\ resourceMap = CombineResources
  /\ connections = [k \in Keys |-> <<>>]
  /\ phase = "declaring"
  /\ relations = NoGraph
  /\ adjacencyList = NoGraph
  /\ call = NoCall
  /\ ret = NoCall
  /\ pathAsked \in PathStrings
  /\ instance = NoInstance
  /\ now = 0
  /\ heap = <<>>

\* the options a caller hands to getInstance
ResolverOptions ==
  [pathSeparator : {DEFAULT_PATH_SEPARATOR},
   enableCache : BOOLEAN,
   cacheTtlMs : {minutesToMs(CACHE_TTL_MINUTES)}]

\* new ResourcePathResolver(options): `id` tells the objects apart, the
\* n-th resolver constructed bearing n
ResourcePathResolver(options, id) ==
  [kind |-> "resolver", id |-> id, pathSeparator |-> options.pathSeparator,
   enableCache |-> options.enableCache, cacheTtlMs |-> options.cacheTtlMs,
   cache |-> <<>>]

\* getInstance constructing a resolver from the options of every call
getInstance_Reconfigures(options) ==
  IF instance = NoInstance
  THEN ResourcePathResolver(options, 1)
  ELSE ResourcePathResolver(options, instance.id + 1)

\* ResourcePathResolver.getInstance(options): the static field as the call
\* leaves it, which is what the call returns
getInstance(options) ==
  IF instance = NoInstance
  THEN ResourcePathResolver(options, 1)
  ELSE instance

\* a caller asks for the resolver with one of the options of `optionSet`
GetInstanceOf(optionSet) ==
  /\ \E options \in optionSet :
       /\ instance' = getInstance(options)
       /\ call' = [op |-> "getInstance", options |-> options]
       /\ ret' = Value(getInstance(options))
  /\ UNCHANGED <<resourceMap, connections, phase, relations, adjacencyList,
                 pathAsked, now, heap>>

GetInstance == GetInstanceOf(ResolverOptions)

\* a caller that has the resources `resources` asks about one of `paths`;
\* the call is kept with its answer until the next call
ValidatePathOf(resources, paths) ==
  /\ instance # NoInstance
  /\ \E resource \in resources, path \in paths :
       LET outcome == validatePath(resource, path)
       IN /\ call' = [op |-> "validatePath", resource |-> resource,
                      path |-> path, hit |-> outcome.hit]
          /\ ret' = Value(outcome.result)
          /\ instance' = [instance EXCEPT !.cache = outcome.cache]
  /\ UNCHANGED <<resourceMap, connections, phase, relations, adjacencyList,
                 pathAsked, now, heap>>

ValidatePath == ValidatePathOf(PathResources, {pathAsked})

\* a minute passes
Tick ==
  /\ now < minutesToMs(MaxMinutes)
  /\ now' = now + minutesToMs(1)
  /\ UNCHANGED <<resourceMap, connections, phase, relations, adjacencyList,
                 call, ret, pathAsked, instance, heap>>

PathNext ==
  \/ GetInstance
  \/ ValidatePath
  \/ Tick
  \/ Return

PathSpec == PathInit /\ [][PathNext]_vars

----------------------------------------------------------------------------
(* The cache of the path resolver and its callers *)

\* paths listed in one call of invalidateCachePaths
MaxInvalidated == 2

\* a second resource named "user" whose attributes a and k are of other
\* types: another Resource instance of that name, or the first one after
\* its shape was changed (validatePath reads resource.name and
\* resource.attributes at the time of the call and nothing else)
UserTwin ==
  Resource("user",
    (<<"a">> :> string) @@ (<<"k">> :> array(string)))

CacheResources == {UserResource, UserTwin}

\* the paths the callers of the cache ask about and invalidate
CachePaths == {<<"a", DEFAULT_PATH_SEPARATOR, "a">>, <<"k">>}

\* the lists of paths handed to invalidateCachePaths
PathLists == UNION {[1..n -> CachePaths] : n \in 0..MaxInvalidated}

CacheInit ==
  /\ resourceMap = CombineResources
  /\ connections = [k \in Keys |-> <<>>]
  /\ phase = "declaring"
  /\ relations = NoGraph
  /\ adjacencyList = NoGraph
  /\ call = NoCall
  /\ ret = NoCall
  /\ pathAsked = <<>>
  /\ instance = NoInstance
  /\ now = 0
  /\ heap = <<>>

\* the options the callers of the cache hand to getInstance: two
\* separators, the cache on or off, a TTL of one or of two minutes
CacheOptions ==
  [pathSeparator : {DEFAULT_PATH_SEPARATOR, "/"},
   enableCache : BOOLEAN,
   cacheTtlMs : {minutesToMs(CACHE_TTL_MINUTES),
                 minutesToMs(2 * CACHE_TTL_MINUTES)}]

GetAnyInstance == GetInstanceOf(CacheOptions)

ValidateAnyPath == ValidatePathOf(CacheResources, CachePaths)

InvalidateCachePaths ==
  /\ instance # NoInstance
  /\ \E resource \in CacheResources, paths \in PathLists :
       LET outcome == invalidateCachePaths(resource, paths)
       IN /\ call' = [op |-> "invalidateCachePaths", resource |-> resource,
                      paths |-> paths]
          /\ ret' = Value(outcome.result)
          /\ instance' = [instance EXCEPT !.cache = outcome.cache]
  /\ UNCHANGED <<resourceMap, connections, phase, relations, adjacencyList,
                 pathAsked, now, heap>>

\* clearCache()
ClearCache ==
  /\ instance # NoInstance
  /\ call' = [op |-> "clearCache"]
  /\ ret' = Value(Undefined)
  /\ instance' = [instance EXCEPT !.cache = CacheClear(instance.cache)]
  /\ UNCHANGED <<resourceMap, connections, phase, relations, adjacencyList,
                 pathAsked, now, heap>>

CacheNext ==
  \/ GetAnyInstance
  \/ ValidateAnyPath
  \/ InvalidateCachePaths
  \/ ClearCache
  \/ Tick

CacheSpec == CacheInit /\ [][CacheNext]_vars

----------------------------------------------------------------------------
(* Attribute instances and the callers of their fluent methods *)

\* attribute instances made in one run
MaxInstances == 3

FlagSetters ==
  {"selectable", "filterable", "sortable", "optional", "nullable",
   "readonly"}

\* the argument of a flag setter: true, false, or left out
FlagArgs == {Value(TRUE), Value(FALSE), Undefined}

\* value: T = true
DefaultTrue(arg) == IF arg = Undefined THEN TRUE ELSE arg.value

\* receiver[name](value)
CallSetter(name, attr, value) ==
  CASE name = "selectable" -> selectable(attr, value)
    [] name = "filterable" -> filterable(attr, value)
    [] name = "sortable" -> sortable(attr, value)
    [] name = "optional" -> optional(attr, value)
    [] name = "nullable" -> nullable(attr, value)
    [] name = "readonly" -> readonly(attr, value)

\* the descriptions handed to describe
Descriptions == {<<"d">>}

\* what the typed constructors are called with
Constructed == {string, object(LeafShape)}

AttrInit ==
  /\ resourceMap = CombineResources
  /\ connections = [k \in Keys |-> <<>>]
  /\ phase = "declaring"
  /\ relations = NoGraph
  /\ adjacencyList = NoGraph
  /\ call = NoCall
  /\ ret = NoCall
  /\ pathAsked = <<>>
  /\ instance = NoInstance
  /\ now = 0
  /\ heap = <<>>

\* string(), object(shape): a new instance with default flags
Construct ==
  /\ Len(heap) < MaxInstances
  /\ \E attribute \in Constructed :
       /\ heap' = Append(heap, Instance(attribute, NoMetadata))
       /\ call' = [op |-> "construct", type |-> attribute.type]
  /\ ret' = Value(Len(heap) + 1)
  /\ UNCHANGED <<resourceMap, connections, phase, relations, adjacencyList,
                 pathAsked, instance, now>>

\* receiver.selectable(value) .. receiver.readonly(value): return new
\* Attribute({ def, type, flags }), its metadata the default {}
SetFlag ==
  /\ Len(heap) < MaxInstances
  /\ \E receiver \in DOMAIN heap, name \in FlagSetters, arg \in FlagArgs :
       /\ heap' = Append(heap,
                    Instance(CallSetter(name, heap[receiver].attribute,
                                        DefaultTrue(arg)),
                             NoMetadata))
       /\ call' = [op |-> name, receiver |-> receiver, arg |-> arg]
  /\ ret' = Value(Len(heap) + 1)
  /\ UNCHANGED <<resourceMap, connections, phase, relations, adjacencyList,
                 pathAsked, instance, now>>

\* receiver.describe(description): this.metadata.description = description;
\* return this
Describe ==
  /\ \E receiver \in DOMAIN heap, description \in Descriptions :
       /\ heap' = [heap EXCEPT
                     ![receiver].metadata.description = Str(description)]
       /\ call' = [op |-> "describe", receiver |-> receiver,
                   description |-> description]
       /\ ret' = Value(receiver)
  /\ UNCHANGED <<resourceMap, connections, phase, relations, adjacencyList,
                 pathAsked, instance, now>>

\* receiver.clone(): return new Attribute({ def, type, flags })
Clone ==
  /\ Len(heap) < MaxInstances
  /\ \E receiver \in DOMAIN heap :
       /\ heap' = Append(heap,
                    Instance(clone(heap[receiver].attribute), NoMetadata))
       /\ call' = [op |-> "clone", receiver |-> receiver]
  /\ ret' = Value(Len(heap) + 1)
  /\ UNCHANGED <<resourceMap, connections, phase, relations, adjacencyList,
                 pathAsked, instance, now>>

AttrNext ==
  \/ Construct
  \/ SetFlag
  \/ Describe
  \/ Clone

AttrSpec == AttrInit /\ [][AttrNext]_vars

----------------------------------------------------------------------------
(* The path resolver: properties under PathSpec *)

\* the name a segment bears, its optional or array marker taken off
BareName(segment) ==
  IF segment # <<>>
       /\ segment[Len(segment)] \in {OPTIONAL_MARKER, ARRAY_MARKER}
  THEN SubSeq(segment, 1, Len(segment) - 1)
  ELSE segment

\* the kinds of failing path: an empty segment, a first segment that names
\* no attribute of the resource, an array marker on an attribute that is no
\* array, segments after a string attribute, and after a one-of a segment
\* that is neither the discriminator nor an attribute of any case
FailingPath(resource, pathString) ==
  LET segments == Split(pathString, ".")
      first == segments[1]
      name == BareName(first)
      attrs == resource.attributes
  IN \/ pathString = <<>>
     \/ \E i \in 1..Len(segments) : segments[i] = <<>>
     \/ name \notin DOMAIN attrs
     \/ /\ name \in DOMAIN attrs
        /\ \/ first[Len(first)] = ARRAY_MARKER /\ attrs[name].type # "array"
           \/ /\ first = name
              /\ Len(segments) > 1
              /\ \/ attrs[name].type = "string"
                 \/ /\ attrs[name].type = "oneOf"
                    /\ segments[2] # attrs[name].def.discriminator
                    /\ \A i \in 1..Len(attrs[name].def.cases) :
                         BareName(segments[2])
                           \notin DOMAIN attrs[name].def.cases[i].def.shape

\* the messages of ERROR_MESSAGE
ErrorMessages ==
  {ERROR_MESSAGE.EMPTY_PATH, ERROR_MESSAGE.UNDEFINED_SEGMENT,
   ERROR_MESSAGE.ATTRIBUTE_NOT_FOUND, ERROR_MESSAGE.NOT_ARRAY,
   ERROR_MESSAGE.ARRAY_ITEMS_NOT_OBJECTS,
   ERROR_MESSAGE.CANNOT_NAVIGATE_PRIMITIVE,
   ERROR_MESSAGE.NOT_FOUND_IN_ONEOF}

\* C10: validatePath never throws; for every failing kind of path (empty
\* path, empty segment, unknown attribute, array marker on a non-array,
\* navigation past a primitive, no matching one-of case) it returns
\* valid = false with an error made from an ERROR_MESSAGE template, and the
\* empty path gives EMPTY_PATH.
C10_FailingPathsAreInvalid ==
  call.op = "validatePath" =>
    /\ ret.kind = "value"
    /\ FailingPath(call.resource, call.path) =>
         /\ ret.value.valid = FALSE
         /\ ret.value.error.kind = "string"
         /\ ret.value.error.template \in ErrorMessages
    /\ call.path = <<>> =>
         ret.value.error = Message(ERROR_MESSAGE.EMPTY_PATH)

----------------------------------------------------------------------------
(* The path resolver: the kinds of segment, under PathSpec *)

\* the segments of the path that was asked
Segments(pathString) == Split(pathString, DEFAULT_PATH_SEPARATOR)

HasArrayMarker(segment) ==
  segment # <<>> /\ segment[Len(segment)] = ARRAY_MARKER

\* no segment is empty and none bears the array marker
PlainPath(segments) ==
  \A i \in 1..Len(segments) :
    segments[i] # <<>> /\ ~HasArrayMarker(segments[i])

\* an attribute whose type tag is `type`
IsTyped(attr, type) == attr.kind = "attribute" /\ attr.type = type

OutOfScope ==
  [scope |-> FALSE, valid |-> FALSE, attribute |-> Undefined,
   parentAttribute |-> Undefined, missing |-> <<>>]

\* what a path of plain segments is to resolve to, from its i-th segment on,
\* when every segment before the last names an object attribute: the
\* attribute under the last name and the object that holds it, or the first
\* name that is no key of the current attribute map
RECURSIVE PlainWalk(_, _, _, _)
PlainWalk(attributes, segments, i, parent) ==
  LET name == BareName(segments[i])
  IN IF name \notin DOMAIN attributes
     THEN [OutOfScope EXCEPT !.scope = TRUE, !.missing = name]
     ELSE IF i = Len(segments)
     THEN [OutOfScope EXCEPT !.scope = TRUE, !.valid = TRUE,
                             !.attribute = attributes[name],
                             !.parentAttribute = parent]
     ELSE IF IsTyped(attributes[name], "object")
     THEN PlainWalk(attributes[name].def.shape, segments, i + 1,
                    attributes[name])
     ELSE OutOfScope

\* C11: a path of plain segments through object attributes is valid iff
\* every name is a key of the current attribute map; then its attribute is
\* the one stored under the last name and its parentAttribute the object
\* that holds it ("a.b" on {a: {b: string}}); otherwise it is invalid with
\* ATTRIBUTE_NOT_FOUND for the first name that is no key ("a.c").
C11_PlainSegmentResolvesIffKey ==
  (call.op = "validatePath" /\ call.path # <<>>
     /\ PlainPath(Segments(call.path))) =>
    LET expected == PlainWalk(call.resource.attributes,
                              Segments(call.path), 1, Undefined)
    IN expected.scope =>
         IF expected.valid
         THEN /\ ret.value.valid
              /\ ret.value.attribute = expected.attribute
              /\ ret.value.parentAttribute = expected.parentAttribute
         ELSE /\ ~ret.value.valid
              /\ ret.value.error =
                   Replace(ERROR_MESSAGE.ATTRIBUTE_NOT_FOUND,
                           expected.missing)

\* attr is an object, array or one-of attribute: by its type tag, or by the
\* class it is an instance of
IsA(attr, type, class, mode) ==
  IF mode = "class" THEN InstanceOf(attr, class) ELSE IsTyped(attr, type)

\* where a walk stands: the attribute map, the attribute that holds it, and
\* the discriminator when the map is a one-of case just entered
Standing(shape, parent, skip) ==
  [shape |-> shape, parent |-> parent, skip |-> skip]

\* the places a walk from `at` can stand after the segments of prefix: down
\* object attributes, down arrays of objects addressed with the marker and,
\* with throughCases, down the cases of a one-of, its discriminator passed
\* over when it is the next segment
RECURSIVE Reach(_, _, _, _)
Reach(at, prefix, mode, throughCases) ==
  IF prefix = <<>> THEN {at}
  ELSE
    LET segment == Head(prefix)
        name == BareName(segment)
        attr == at.shape[name]
        rest == Tail(prefix)
        item == attr.def.itemType
        cases == {attr.def.cases[i] : i \in 1..Len(attr.def.cases)}
    IN IF name \notin DOMAIN at.shape \/ segment = at.skip THEN {}
       ELSE IF HasArrayMarker(segment)
       THEN IF IsA(attr, "array", "ArrayAttribute", mode)
                 /\ IsA(item, "object", "ObjectAttribute", mode)
            THEN Reach(Standing(item.def.shape, attr, <<>>), rest, mode,
                       throughCases)
            ELSE {}
       ELSE IF IsA(attr, "object", "ObjectAttribute", mode)
       THEN Reach(Standing(attr.def.shape, attr, <<>>), rest, mode,
                  throughCases)
       ELSE IF throughCases /\ IsA(attr, "oneOf", "OneOfAttribute", mode)
       THEN UNION
              {Reach(Standing(c.def.shape, c, attr.def.discriminator), rest,
                     mode, throughCases)
                 \cup (IF rest # <<>> /\ Head(rest) = attr.def.discriminator
                       THEN Reach(Standing(c.def.shape, c, <<>>), Tail(rest),
                                  mode, throughCases)
                       ELSE {})
               : c \in {k \in cases :
                          IsA(k, "object", "ObjectAttribute", mode)}}
       ELSE {}

\* the walk starts at the attribute map of the resource
Top(resource) == Standing(resource.attributes, Undefined, <<>>)

\* a resource made of one shape: what is left of a path is resolved in it
InShape(shape, segments) ==
  doValidatePath(Resource("shape", shape),
                 Join(segments, DEFAULT_PATH_SEPARATOR))

\* the i-th segment is the first that bears the array marker, and it names
\* an array attribute of the map the segments before it lead to
ArraySegmentAt(resource, segments, i, at) ==
  /\ HasArrayMarker(segments[i])
  /\ PlainPath(SubSeq(segments, 1, i - 1))
  /\ at \in Reach(Top(resource), SubSeq(segments, 1, i - 1), "tag", FALSE)
  /\ BareName(segments[i]) \in DOMAIN at.shape
  /\ IsTyped(at.shape[BareName(segments[i])], "array")

\* C12: for a segment name[] that names an array attribute of the current
\* attribute map: when it is the last segment the result is valid with the
\* array attribute itself; when segments remain and the item type is not an
\* object attribute the result is invalid with ARRAY_ITEMS_NOT_OBJECTS; when
\* the item type is an object attribute the remaining segments are resolved in
\* its shape, so "l[].a" is valid for l = array(object({a: string})).
C12_ArraySegment ==
  call.op = "validatePath" =>
    \A i \in 1..Len(Segments(call.path)) :
      \A at \in Reach(Top(call.resource),
                      SubSeq(Segments(call.path), 1, i - 1), "tag", FALSE) :
        ArraySegmentAt(call.resource, Segments(call.path), i, at) =>
          LET segments == Segments(call.path)
              arrayAttr == at.shape[BareName(segments[i])]
              itemAttr == arrayAttr.def.itemType
              rest == SubSeq(segments, i + 1, Len(segments))
          IN IF i = Len(segments)
             THEN ret.value.valid /\ ret.value.attribute = arrayAttr
             ELSE IF ~IsTyped(itemAttr, "object")
             THEN /\ ~ret.value.valid
                  /\ ret.value.error =
                       Message(ERROR_MESSAGE.ARRAY_ITEMS_NOT_OBJECTS)
             ELSE /\ ret.value.valid = InShape(itemAttr.def.shape, rest).valid
                  /\ ret.value.attribute =
                       InShape(itemAttr.def.shape, rest).attribute
                  /\ (Len(rest) = 1 /\ rest[1] \in DOMAIN itemAttr.def.shape)
                       => /\ ret.value.valid
                          /\ ret.value.attribute = itemAttr.def.shape[rest[1]]

\* the i-th segment is plain, further segments remain, and at the place
\* `at` the segments before it lead to it names an attribute that is no
\* instance of ObjectAttribute or OneOfAttribute
PrimitiveAt(segments, i, at) ==
  /\ i < Len(segments)
  /\ segments[i] # <<>>
  /\ ~HasArrayMarker(segments[i])
  /\ segments[i] # at.skip
  /\ BareName(segments[i]) \in DOMAIN at.shape
  /\ ~InstanceOf(at.shape[BareName(segments[i])], "ObjectAttribute")
  /\ ~InstanceOf(at.shape[BareName(segments[i])], "OneOfAttribute")

\* the result is invalid with CANNOT_NAVIGATE_PRIMITIVE for `segment`
CannotNavigate(result, segment) ==
  /\ ~result.valid
  /\ result.error = Replace(ERROR_MESSAGE.CANNOT_NAVIGATE_PRIMITIVE,
                            BareName(segment))

\* C13 as stated: whenever a plain segment resolves to an attribute that is
\* neither an object attribute nor a one-of and further segments remain,
\* validatePath is invalid with CANNOT_NAVIGATE_PRIMITIVE; the segment may be
\* resolved in the attribute map of the resource, of an object, of the items
\* of an array, or of a case of a one-of.
C13_PrimitiveStopsNavigation ==
  call.op = "validatePath" =>
    \A i \in 1..Len(Segments(call.path)) :
      \A at \in Reach(Top(call.resource),
                      SubSeq(Segments(call.path), 1, i - 1), "class", TRUE) :
        PrimitiveAt(Segments(call.path), i, at) =>
          CannotNavigate(ret.value, Segments(call.path)[i])

\* C13 amended: the same for a segment that is reached through object
\* attributes and marked arrays of objects only, not through the case scan
\* of a one-of; "l.a" is invalid for l = array(object({a: string})).
C13_PrimitiveStopsNavigationOutsideCases ==
  call.op = "validatePath" =>
    \A i \in 1..Len(Segments(call.path)) :
      \A at \in Reach(Top(call.resource),
                      SubSeq(Segments(call.path), 1, i - 1), "class", FALSE) :
        PrimitiveAt(Segments(call.path), i, at) =>
          CannotNavigate(ret.value, Segments(call.path)[i])

\* an array of objects was addressed without the marker, inside an object
\* or at the top, and the path went on
C13_Witness ==
  /\ call.op = "validatePath"
  /\ \E i \in 1..Len(Segments(call.path)) :
       \E at \in Reach(Top(call.resource),
                       SubSeq(Segments(call.path), 1, i - 1), "class",
                       FALSE) :
         /\ PrimitiveAt(Segments(call.path), i, at)
         /\ InstanceOf(at.shape[BareName(Segments(call.path)[i])],
                       "ArrayAttribute")
         /\ CannotNavigate(ret.value, Segments(call.path)[i])

\* the i-th segment is plain and names a one-of attribute of the map the
\* segments before it lead to, and further segments remain
OneOfAt(segments, i, at) ==
  /\ i < Len(segments)
  /\ PlainPath(SubSeq(segments, 1, i))
  /\ BareName(segments[i]) \in DOMAIN at.shape
  /\ IsTyped(at.shape[BareName(segments[i])], "oneOf")

\* the cases of a one-of, in declaration order, in whose shape the remaining
\* segments validate
Validating(attr, rest) ==
  {c \in 1..Len(attr.def.cases) :
     /\ IsTyped(attr.def.cases[c], "object")
     /\ InShape(attr.def.cases[c].def.shape, rest).valid}

FirstValidating(attr, rest) ==
  CHOOSE c \in Validating(attr, rest) :
    \A d \in Validating(attr, rest) : c <= d

\* the cases whose shape has the attribute `name`
Having(attr, name) ==
  {c \in 1..Len(attr.def.cases) :
     /\ IsTyped(attr.def.cases[c], "object")
     /\ name \in DOMAIN attr.def.cases[c].def.shape}

\* result is what the scan of the cases of attr gives for the remaining
\* segments: the attribute found in the first case that validates them, that
\* case being the parent of a single remaining segment, or NOT_FOUND_IN_ONEOF
\* when no case validates them
CaseScan(result, attr, rest) ==
  IF Validating(attr, rest) = {}
  THEN /\ ~result.valid
       /\ result.error = Message(ERROR_MESSAGE.NOT_FOUND_IN_ONEOF)
  ELSE LET caseObj == attr.def.cases[FirstValidating(attr, rest)]
       IN /\ result.valid
          /\ result.attribute = InShape(caseObj.def.shape, rest).attribute
          /\ Len(rest) = 1 => result.parentAttribute = caseObj

\* C14: for a one-of that is not the last segment and whose next segment is
\* not its discriminator, the remaining segments are tried against the shape
\* of each case in declaration order and the first case that validates them
\* is returned; a field present in exactly one case resolves to that case's
\* attribute with that case as parent; when no case validates them the
\* result is invalid with NOT_FOUND_IN_ONEOF.
C14_OneOfScansCases ==
  call.op = "validatePath" =>
    \A i \in 1..Len(Segments(call.path)) :
      \A at \in Reach(Top(call.resource),
                      SubSeq(Segments(call.path), 1, i - 1), "tag", FALSE) :
        (/\ OneOfAt(Segments(call.path), i, at)
         /\ Segments(call.path)[i + 1] #
              at.shape[BareName(Segments(call.path)[i])].def.discriminator) =>
          LET segments == Segments(call.path)
              attr == at.shape[BareName(segments[i])]
              rest == SubSeq(segments, i + 1, Len(segments))
              name == BareName(rest[1])
          IN /\ CaseScan(ret.value, attr, rest)
             /\ (/\ Len(rest) = 1
                 /\ ~HasArrayMarker(rest[1])
                 /\ Cardinality(Having(attr, name)) = 1) =>
                  \A c \in Having(attr, name) :
                    /\ ret.value.valid
                    /\ ret.value.attribute =
                         attr.def.cases[c].def.shape[name]
                    /\ ret.value.parentAttribute = attr.def.cases[c]

\* C15: for a one-of whose next segment is its discriminator, that segment
\* is consumed; when no segment remains the result is valid; when segments
\* remain they are searched in the shape of every case (never in the
\* discriminator attribute) and the first case that validates them is
\* returned, or the result is invalid with NOT_FOUND_IN_ONEOF.
C15_DiscriminatorIsConsumed ==
  call.op = "validatePath" =>
    \A i \in 1..Len(Segments(call.path)) :
      \A at \in Reach(Top(call.resource),
                      SubSeq(Segments(call.path), 1, i - 1), "tag", FALSE) :
        (/\ OneOfAt(Segments(call.path), i, at)
         /\ Segments(call.path)[i + 1] =
              at.shape[BareName(Segments(call.path)[i])].def.discriminator) =>
          LET segments == Segments(call.path)
              attr == at.shape[BareName(segments[i])]
              rest == SubSeq(segments, i + 2, Len(segments))
          IN IF rest = <<>> THEN ret.value.valid
             ELSE CaseScan(ret.value, attr, rest)

\* the attribute as the typed constructor of its type tag returns it, and so
\* the attributes of its shape, its item type and its cases
RECURSIVE ByTag(_)
ByTag(attr) ==
  CASE attr.type = "object" ->
         object([name \in DOMAIN attr.def.shape |->
                   ByTag(attr.def.shape[name])])
    [] attr.type = "array" -> array(ByTag(attr.def.itemType))
    [] attr.type = "oneOf" ->
         oneOf(attr.def.discriminator,
               [i \in DOMAIN attr.def.cases |-> ByTag(attr.def.cases[i])])
    [] OTHER -> string

\* the resource with every attribute as its typed constructor returns it
Typed(resource) ==
  Resource(resource.name,
           [name \in DOMAIN resource.attributes |->
              ByTag(resource.attributes[name])])

\* C24: navigation depends on the type tags only: validatePath accepts a
\* path of a resource, and rejects it with the same error, exactly as it
\* does for the resource whose attributes have the same type tags and come
\* straight from the typed constructors; an object, or an array of objects
\* addressed with the marker, that went through optional() is descended
\* into.
C24_NavigationByTypeTag ==
  call.op = "validatePath" =>
    LET expected == doValidatePath(Typed(call.resource), call.path)
    IN /\ ret.value.valid = expected.valid
       /\ ret.value.error = expected.error

\* C29: every validatePath result with valid = true has a defined attribute
\* and a fullPath equal to the path string that was asked, whether the path
\* goes through objects, array markers, optional markers, the case scan of a
\* one-of or its discriminator.
C29_ValidResultCarriesFullPath ==
  (call.op = "validatePath" /\ ret.value.valid) =>
    /\ ret.value.attribute # Undefined
    /\ ret.value.fullPath = Str(call.path)

----------------------------------------------------------------------------
(* The cache of the path resolver: properties under CacheSpec *)

\* C16: two consecutive validatePath calls with the same resource and the
\* same path return equal results, the cache enabled or not, the entry
\* expired between the two or not.
C16_ConsecutiveCallsAgree ==
  [][(/\ call.op = "validatePath"
      /\ call'.op = "validatePath"
      /\ call'.resource = call.resource
      /\ call'.path = call.path) => ret'.value = ret.value]_vars

\* C17: after invalidateCachePaths(resource, p1, ..., pn) no cache entry is
\* left for any of the listed paths, whichever of them were cached and in
\* whatever order they are listed.
C17_InvalidatedPathsAreGone ==
  call.op = "invalidateCachePaths" =>
    \A i \in 1..Len(call.paths) :
      getCacheKey(call.resource, call.paths[i]) \notin DOMAIN instance.cache

\* C18: with the cache enabled, when validatePath(r1, p) stored its result
\* less than one TTL ago and r2 is another resource of the same name,
\* validatePath(r2, p) returns the result computed for r1.
C18_SameNameSharesEntry ==
  [][(/\ instance # NoInstance
      /\ instance.enableCache
      /\ call.op = "validatePath"
      /\ ~call.hit
      /\ call'.op = "validatePath"
      /\ call'.path = call.path
      /\ call'.resource.name = call.resource.name
      /\ call'.resource # call.resource
      /\ now < instance.cache[getCacheKey(call.resource, call.path)].expiry)
     => /\ call'.hit
        /\ ret'.value = ret.value
        /\ ret'.value = doValidatePath(call.resource, call.path)]_vars

\* a resource was answered with the cached result of another resource of
\* its name, and its own attribute tree resolves the path differently
C18_Witness ==
  /\ call.op = "validatePath"
  /\ call.hit
  /\ ret.value # doValidatePath(call.resource, call.path)
  /\ \E other \in CacheResources :
       /\ other # call.resource
       /\ other.name = call.resource.name
       /\ ret.value = doValidatePath(other, call.path)

\* the step is a call of `op` (every call records itself; the clock does not
\* move while a call is made)
CallOf(op) == now' = now /\ call'.op = op

\* the key of the entry a validatePath call reads and writes
KeyOf(c) == getCacheKey(c.resource, c.path)

\* C22: with the cache enabled a validatePath call is served from the cache
\* exactly when an entry of its key is stored and the clock has not passed
\* the expiry of the entry; otherwise the result is computed and stored with
\* the expiry now + TTL (so the first read after expiry replaces the entry).
\* An entry leaves the cache or changes only by an expired read of its own
\* key, by invalidateCachePaths or by clearCache, never by a read or a write
\* of another key nor by the passing of time.
C22_ExpiryIsCheckedOnRead ==
  [][instance # NoInstance =>
       /\ (CallOf("validatePath") /\ instance.enableCache) =>
            LET key == KeyOf(call')
                stored == key \in DOMAIN instance.cache
            IN /\ call'.hit <=> (stored /\ now <= instance.cache[key].expiry)
               /\ call'.hit =>
                    /\ ret'.value = instance.cache[key].value
                    /\ instance'.cache = instance.cache
               /\ ~call'.hit =>
                    /\ ret'.value = doValidatePath(call'.resource, call'.path)
                    /\ key \in DOMAIN instance'.cache
                    /\ instance'.cache[key] =
                         [expiry |-> now + instance.cacheTtlMs,
                          value |-> ret'.value]
       /\ \A k \in DOMAIN instance.cache :
            \/ k \in DOMAIN instance'.cache
                 /\ instance'.cache[k] = instance.cache[k]
            \/ CallOf("invalidateCachePaths")
            \/ CallOf("clearCache")
            \/ /\ CallOf("validatePath")
               /\ KeyOf(call') = k
               /\ instance.cache[k].expiry < now]_vars

\* a result was computed and stored while the expired entry of another key
\* is still in the cache
C22_Witness ==
  /\ call.op = "validatePath"
  /\ ~call.hit
  /\ instance.enableCache
  /\ \E k \in DOMAIN instance.cache :
       /\ k # KeyOf(call)
       /\ instance.cache[k].expiry < now

\* C23: getInstance returns the same resolver on every call: the first call
\* constructs it from its options, with an empty cache; every later call
\* returns that resolver and leaves its separator, cache flag, TTL and cache
\* as they are, whatever options it is given.
C23_GetInstanceIsSingleton ==
  [][CallOf("getInstance") =>
       /\ ret'.value = instance'
       /\ instance = NoInstance =>
            /\ instance'.pathSeparator = call'.options.pathSeparator
            /\ instance'.enableCache = call'.options.enableCache
            /\ instance'.cacheTtlMs = call'.options.cacheTtlMs
            /\ instance'.cache = <<>>
       /\ instance # NoInstance => instance' = instance]_vars

\* a later call with other options returned the resolver with its entries
C23_Witness ==
  /\ call.op = "getInstance"
  /\ instance.cache # <<>>
  /\ call.options.pathSeparator # instance.pathSeparator
  /\ call.options.enableCache # instance.enableCache
  /\ call.options.cacheTtlMs # instance.cacheTtlMs
  /\ ret.value = instance

----------------------------------------------------------------------------
(* Attribute instances: properties under AttrSpec *)

\* C19: every flag setter returns a new instance whose flags are the
\* receiver's except for the named flag, which takes the given value (true
\* when left out), and whose type tag and definition are the receiver's; the
\* receiver is as it was.
C19_FlagSetterReturnsNewInstance ==
  [][call'.op \in FlagSetters =>
       LET receiver == call'.receiver
           made == ret'.value
       IN /\ made \notin DOMAIN heap
          /\ made \in DOMAIN heap'
          /\ heap'[made].attribute.flags =
               [heap[receiver].attribute.flags
                  EXCEPT ![call'.op] = DefaultTrue(call'.arg)]
          /\ heap'[made].attribute.type = heap[receiver].attribute.type
          /\ heap'[made].attribute.def = heap[receiver].attribute.def
          /\ heap'[receiver] = heap[receiver]]_vars

\* a setter called without an argument on an instance that already differs
\* from the defaults gave an instance with the named flag true and the other
\* flags of the receiver
C19_Witness ==
  /\ call.op \in FlagSetters
  /\ call.arg = Undefined
  /\ heap[call.receiver].attribute.flags # DEFAULT_ATTRIBUTE_FLAGS
  /\ ~heap[call.receiver].attribute.flags[call.op]
  /\ heap[ret.value].attribute.flags[call.op]
  /\ heap[ret.value].attribute.flags # heap[call.receiver].attribute.flags

\* C20: describe(description) returns a new instance that carries the
\* description and leaves the metadata of the receiver as it was; clone()
\* returns a new instance, distinct from the receiver, with the receiver's
\* type, definition and flags.
C20_DescribeAndCloneReturnNewInstance ==
  [][/\ call'.op = "describe" =>
          /\ ret'.value \notin DOMAIN heap
          /\ ret'.value # call'.receiver
          /\ heap'[ret'.value].metadata.description =
               Str(call'.description)
          /\ heap'[call'.receiver].metadata = heap[call'.receiver].metadata
     /\ call'.op = "clone" =>
          /\ ret'.value \notin DOMAIN heap
          /\ ret'.value # call'.receiver
          /\ heap'[ret'.value].attribute.type =
               heap[call'.receiver].attribute.type
          /\ heap'[ret'.value].attribute.def =
               heap[call'.receiver].attribute.def
          /\ heap'[ret'.value].attribute.flags =
               heap[call'.receiver].attribute.flags]_vars

====
